---- MODULE Spec2Model ----
(***************************************************************************)
(* ASMP, the ArtStudia package manager client (asmp.py): the three files   *)
(* under ~/.asmp (config.json, packages.json, installed_packages.json),    *)
(* the client object built by every command line invocation, and the       *)
(* commands of main().                                                     *)
(*                                                                         *)
(* Python values are modelled as follows.  A dict is a TLA+ function on    *)
(* its keys (a record), so a key may be absent; a list is a sequence; an   *)
(* optional value is None (the empty sequence) or <<v>>.  A file is None   *)
(* when it does not exist and <<content>> otherwise.  A str is a TLA+      *)
(* string; str.lower(), "in" and " ".join work on its characters, which    *)
(* CharsOf lists for every string of the model.                            *)
(***************************************************************************)
EXTENDS Integers, Sequences, FiniteSets, TLC

VARIABLES
  config_file,     \* ~/.asmp/config.json
  packages_file,   \* ~/.asmp/packages.json, the package cache
  installed_file,  \* ~/.asmp/installed_packages.json, the ledger
  base_url,        \* self.base_url of the running client
  pc,              \* position of the running process ("off": none runs)
  sent,            \* requests posted by the running process, in order
  package_info,    \* local package_info of install_package_remote
  last,            \* the command of the running (or last) process, its inputs
  ret,             \* what the last command returned (None while it runs)
  written,         \* the files the running (or last) step sequence wrote
  procs            \* the client processes that run side by side, by name

vars == <<config_file, packages_file, installed_file, base_url, pc, sent,
          package_info, last, ret, written, procs>>

----------------------------------------------------------------------------
\* Bounds of the model.

\* time.time() yields a value of 1..MaxTime
MaxTime == 2
\* longest "packages" list of a search response
MaxPkgs == 2

Times == 1..MaxTime

----------------------------------------------------------------------------
\* Python values.

None == <<>>

Some(v) == <<v>>

\* dict.get(k, default)
Get(d, k, default) == IF k \in DOMAIN d THEN d[k] ELSE default

\* d[k] = v on a dict
DictPut(d, k, v) == [j \in DOMAIN d \cup {k} |-> IF j = k THEN v ELSE d[j]]

\* truth value of a dict or None: None and {} are false
Truthy(opt) == opt # None /\ DOMAIN opt[1] # {}

\* the characters of the strings of the model
CharsOf ==
  "launcher_updater" :> <<"l", "a", "u", "n", "c", "h", "e", "r", "_", "u", "p", "d", "a", "t", "e", "r">> @@
  "Launcher and updater for ArtStudia applications" :> <<"L", "a", "u", "n", "c", "h", "e", "r", " ", "a", "n", "d", " ", "u", "p", "d", "a", "t", "e", "r", " ", "f", "o", "r", " ", "A", "r", "t", "S", "t", "u", "d", "i", "a", " ", "a", "p", "p", "l", "i", "c", "a", "t", "i", "o", "n", "s">> @@
  "launcher" :> <<"l", "a", "u", "n", "c", "h", "e", "r">> @@
  "updater" :> <<"u", "p", "d", "a", "t", "e", "r">> @@
  "gui" :> <<"g", "u", "i">> @@
  "artutils" :> <<"a", "r", "t", "u", "t", "i", "l", "s">> @@
  "Utility functions for ArtTeam projects" :> <<"U", "t", "i", "l", "i", "t", "y", " ", "f", "u", "n", "c", "t", "i", "o", "n", "s", " ", "f", "o", "r", " ", "A", "r", "t", "T", "e", "a", "m", " ", "p", "r", "o", "j", "e", "c", "t", "s">> @@
  "utilities" :> <<"u", "t", "i", "l", "i", "t", "i", "e", "s">> @@
  "helpers" :> <<"h", "e", "l", "p", "e", "r", "s">> @@
  "tools" :> <<"t", "o", "o", "l", "s">> @@
  "x" :> <<"x">> @@
  "Net Kit" :> <<"N", "e", "t", " ", "K", "i", "t">> @@
  "Help" :> <<"H", "e", "l", "p">> @@
  "io" :> <<"i", "o">> @@
  "Net Kit 2" :> <<"N", "e", "t", " ", "K", "i", "t", " ", "2">> @@
  "Art utilities reloaded" :> <<"A", "r", "t", " ", "u", "t", "i", "l", "i", "t", "i", "e", "s", " ", "r", "e", "l", "o", "a", "d", "e", "d">> @@
  "UTIL" :> <<"U", "T", "I", "L">> @@
  "help" :> <<"h", "e", "l", "p">> @@
  "er up" :> <<"e", "r", " ", "u", "p">>

Chars(s) == IF s = "" THEN <<>> ELSE CharsOf[s]

UpperCase == <<"A", "B", "C", "D", "E", "F", "G", "H", "I", "J", "K", "L", "M", "N", "O", "P", "Q", "R", "S", "T", "U", "V", "W", "X", "Y", "Z">>

LowerCase == <<"a", "b", "c", "d", "e", "f", "g", "h", "i", "j", "k", "l", "m", "n", "o", "p", "q", "r", "s", "t", "u", "v", "w", "x", "y", "z">>

\* str.lower() on one character
LowerChar(c) ==
  IF \E i \in 1..Len(UpperCase) : UpperCase[i] = c
  THEN LowerCase[CHOOSE i \in 1..Len(UpperCase) : UpperCase[i] = c]
  ELSE c

\* str.lower()
Lower(cs) == [i \in 1..Len(cs) |-> LowerChar(cs[i])]

\* needle in hay, on strings
Contains(needle, hay) ==
  \E i \in 0..(Len(hay) - Len(needle)) :
    SubSeq(hay, i + 1, i + Len(needle)) = needle

\* " ".join(tags)
RECURSIVE Join(_)
Join(tags) ==
  IF tags = <<>> THEN <<>>
  ELSE IF Len(tags) = 1 THEN Chars(tags[1])
  ELSE Chars(tags[1]) \o <<" ">> \o Join(Tail(tags))

----------------------------------------------------------------------------
\* Program constants.

__version__ == "0.1.0"

DefaultBaseUrl == "https://api.artstudia.com"

DefaultTimeout == 30

RequestTimeout == 30

InstalledBy == "asmp"

\* the two records init_config seeds the cache with
LauncherUpdater ==
  [name |-> "launcher_updater", version |-> "1.0.0",
   description |-> "Launcher and updater for ArtStudia applications",
   author |-> "ArtTeam", license |-> "MIT", type |-> "tool",
   tags |-> <<"launcher", "updater", "gui">>,
   source |-> "https://github.com/artteam9/launcher_updater.git",
   source_type |-> "git"]

ArtUtils ==
  [name |-> "artutils", version |-> "1.2.0",
   description |-> "Utility functions for ArtTeam projects",
   author |-> "ArtTeam", license |-> "MIT", type |-> "library",
   tags |-> <<"utilities", "helpers", "tools">>,
   source |-> "artutils", source_type |-> "pypi"]

\* as default_packages, with the second seeded record left out
default_packages_one(t) ==
  [packages |-> <<LauncherUpdater>>, last_updated |-> t,
   client_version |-> __version__]

default_packages(t) ==
  [packages |-> <<LauncherUpdater, ArtUtils>>, last_updated |-> t,
   client_version |-> __version__]

default_config(url) ==
  [server_url |-> url, auto_update |-> TRUE, timeout |-> DefaultTimeout,
   client_version |-> __version__]

----------------------------------------------------------------------------
\* Files.

\* a file whose content json.load rejects
Corrupt == Some([unparseable |-> TRUE])

\* open() and json.load() both succeed
Parseable(file) == file # None /\ "unparseable" \notin DOMAIN file[1]

----------------------------------------------------------------------------
\* The transport and make_request.

FailKinds == {"ConnectionError", "Timeout", "RequestException", "JSONDecodeError"}

Failure(kind) == [kind |-> kind]

Answer(body) == [kind |-> "ok", body |-> body]

\* the request make_request posts: the payload, the endpoint and the timeout
Request(endpoint, data) == DictPut(DictPut(data, "endpoint", endpoint), "timeout", RequestTimeout)

\* what make_request returns for a transport outcome: the JSON body, or None
make_request(outcome) ==
  IF outcome.kind \in FailKinds THEN None ELSE Some(outcome.body)

\* as Succeeded, with the test of "success" forgotten
SucceededAnyBody(response) == Truthy(response)

\* response and response.get("success")
Succeeded(response) == Truthy(response) /\ Get(response[1], "success", FALSE)

----------------------------------------------------------------------------
\* The package cache.

\* as Matches, comparing without lower()
MatchesCaseSensitive(query, pkg) ==
  LET q == Chars(query) IN
    \/ Contains(q, Chars(pkg.name))
    \/ Contains(q, Chars(Get(pkg, "description", "")))
    \/ Contains(q, Join(Get(pkg, "tags", <<>>)))

\* one test of the loop of search_local
Matches(query, pkg) ==
  LET q == Lower(Chars(query)) IN
    \/ Contains(q, Lower(Chars(pkg.name)))
    \/ Contains(q, Lower(Chars(Get(pkg, "description", ""))))
    \/ Contains(q, Lower(Join(Get(pkg, "tags", <<>>))))

search_local(query, file) ==
  IF ~Parseable(file) THEN <<>>
  ELSE SelectSeq(Get(file[1], "packages", <<>>), LAMBDA pkg : Matches(query, pkg))

\* as DictSet, on a list instead of a dict: the record is always appended
DictSetAppends(values, pkg) == Append(values, pkg)

\* as DictSet, keeping the record already stored under the name
DictSetKeepsFirst(values, pkg) ==
  IF \E i \in 1..Len(values) : values[i].name = pkg.name
  THEN values ELSE Append(values, pkg)

\* local_packages[pkg["name"]] = pkg; the dict keeps insertion order and is
\* held as the list of its values
DictSet(values, pkg) ==
  IF \E i \in 1..Len(values) : values[i].name = pkg.name
  THEN [i \in 1..Len(values) |->
          IF values[i].name = pkg.name THEN pkg ELSE values[i]]
  ELSE Append(values, pkg)

\* the dict after every record of list was stored in it, in order
RECURSIVE DictOf(_, _)
DictOf(values, list) ==
  IF list = <<>> THEN values
  ELSE DictOf(DictSet(values, Head(list)), Tail(list))

\* as update_local_cache, the stored list replaced by the incoming one
update_local_cache_replaces(packages, file, t) ==
  IF ~Parseable(file) THEN file
  ELSE Some(DictPut(DictPut(DictPut(file[1],
              "packages", DictOf(<<>>, packages)),
              "last_updated", t),
              "client_version", __version__))

\* as update_local_cache, an unreadable file replaced by a fresh cache
update_local_cache_recovers(packages, file, t) ==
  Some(DictPut(DictPut(DictPut(IF Parseable(file) THEN file[1] ELSE <<>>,
         "packages",
         DictOf(DictOf(<<>>, IF Parseable(file)
                             THEN Get(file[1], "packages", <<>>) ELSE <<>>),
                packages)),
         "last_updated", t),
         "client_version", __version__))

\* the cache file after update_local_cache(packages) at time t; an
\* exception (unreadable file) is swallowed and nothing is written
update_local_cache(packages, file, t) ==
  IF ~Parseable(file) THEN file
  ELSE LET local_data == file[1]
           local_packages ==
             DictOf(DictOf(<<>>, Get(local_data, "packages", <<>>)), packages)
       IN  Some(DictPut(DictPut(DictPut(local_data,
                  "packages", local_packages),
                  "last_updated", t),
                  "client_version", __version__))

----------------------------------------------------------------------------
\* The installed ledger.

get_installed_packages(file) == IF file = None THEN <<>> ELSE file[1]

\* as Stamped, with installed_by forgotten
StampedNoClient(info, t) ==
  DictPut(DictPut(info, "installed_at", t), "client_version", __version__)

\* package_info with the three install fields set
Stamped(info, t) ==
  DictPut(DictPut(DictPut(info,
    "installed_at", t),
    "installed_by", InstalledBy),
    "client_version", __version__)

\* as WithoutName, with the old entry left in
WithoutNameKeepsAll(installed, name) == installed

\* [p for p in installed if p["name"] != name]
WithoutName(installed, name) ==
  SelectSeq(installed, LAMBDA p : p.name # name)

\* as IsInstalled, with the test forgotten
IsInstalledAlways(installed, name) == TRUE

\* next((p for p in installed if p["name"] == name), None) is not None
IsInstalled(installed, name) ==
  \E i \in 1..Len(installed) : installed[i].name = name

\* as save_installed_package, with the new entry put first
save_installed_package_first(info, file, t) ==
  Some(<<Stamped(info, t)>> \o
       WithoutName(get_installed_packages(file), info.name))

\* the ledger file after save_installed_package(info) at time t
save_installed_package(info, file, t) ==
  Some(Append(WithoutName(get_installed_packages(file), info.name),
              Stamped(info, t)))

----------------------------------------------------------------------------
\* The inputs: command line arguments and what the server answers.

PkgX1 ==
  [name |-> "x", version |-> "1.0.0", description |-> "Net Kit",
   tags |-> <<"Help", "io">>, dependencies |-> <<"artutils">>]

PkgX2 == [name |-> "x", version |-> "2.0.0", description |-> "Net Kit 2"]

ArtUtils2 ==
  [name |-> "artutils", version |-> "1.3.0",
   description |-> "Art utilities reloaded", tags |-> <<"tools">>]

\* records a search response may list
ServerPkgs == {PkgX1, PkgX2, ArtUtils2}

\* records a package info response may carry
InfoPkgs == {PkgX1, PkgX2, ArtUtils2, LauncherUpdater}

PackageLists == UNION {[1..n -> ServerPkgs] : n \in 0..MaxPkgs}

Queries == {"UTIL", "help", "er up", ""}

PackageNames == {"x", "artutils", "launcher_updater"}

\* --version: absent or given
VersionArgs == {None, Some("2.0.0")}

MirrorUrl == "http://mirror.local"

LocalUrl == "http://localhost:8080"

Urls == {MirrorUrl, LocalUrl}

ErrorBodies == {[success |-> FALSE, error |-> "unavailable"], [error |-> "bad request"]}

Failures == {Failure(k) : k \in FailKinds} \cup {Answer(b) : b \in ErrorBodies}

SearchOutcomes ==
  Failures
  \cup {Answer([success |-> TRUE, packages |-> l]) : l \in PackageLists}
  \cup {Answer([success |-> TRUE])}

InfoOutcomes ==
  Failures
  \cup {Answer([success |-> TRUE, package |-> p]) : p \in InfoPkgs}
  \cup {Answer([success |-> TRUE])}

DownloadOutcomes ==
  Failures
  \cup {Answer([success |-> TRUE, download_url |-> "http://dl.local/pkg",
                install_script |-> "setup.sh"])}

StatusOutcomes ==
  Failures \cup {Answer([success |-> TRUE, server |-> [name |-> "registry"]])}

\* a config written by hand: no server_url, other fields off their defaults
OldConfig == [auto_update |-> FALSE, timeout |-> 60, client_version |-> "0.0.9"]

\* a cache file with no "packages" key
OldCache == [client_version |-> "0.0.9"]

\* the client processes of the runs in which two invocations overlap
Procs == {"A", "B"}

\* a process that has not been started
Idle == [pc |-> "off", cmd |-> "none", ret |-> None]

----------------------------------------------------------------------------
\* The state before the first process starts: each file is absent or was left
\* by an earlier installation.

Init ==
  /\ config_file \in {None, Some(OldConfig)}
  /\ packages_file \in {None, Corrupt, Some(OldCache)}
  /\ installed_file \in {None, Some(<<>>)}
  /\ base_url = DefaultBaseUrl
  /\ pc = "off"
  /\ sent = <<>>
  /\ package_info = None
  /\ last = [cmd |-> "none"]
  /\ ret = None
  /\ written = {}
  /\ procs = [p \in Procs |-> Idle]

----------------------------------------------------------------------------
\* A process starts: main() builds ASMPClient(), whose constructor runs
\* init_config.

\* as init_config, with the persisted server_url not read
init_config_default_url(t) ==
  /\ pc = "off"
  /\ config_file' = IF config_file = None
                    THEN Some(default_config(DefaultBaseUrl)) ELSE config_file
  /\ base_url' = DefaultBaseUrl
  /\ packages_file' = IF packages_file = None
                      THEN Some(default_packages(t)) ELSE packages_file
  /\ installed_file' = IF installed_file = None THEN Some(<<>>) ELSE installed_file
  /\ written' = {f \in {"config", "packages", "installed"} :
                   \/ f = "config" /\ config_file = None
                   \/ f = "packages" /\ packages_file = None
                   \/ f = "installed" /\ installed_file = None}
  /\ pc' = "ready"
  /\ sent' = <<>>
  /\ package_info' = None
  /\ last' = [cmd |-> "init"]
  /\ ret' = None
  /\ UNCHANGED procs

init_config(t) ==
  /\ pc = "off"
  /\ config_file' = IF config_file = None
                    THEN Some(default_config(DefaultBaseUrl)) ELSE config_file
  /\ base_url' = IF config_file = None THEN DefaultBaseUrl
                 ELSE Get(config_file[1], "server_url", DefaultBaseUrl)
  /\ packages_file' = IF packages_file = None
                      THEN Some(default_packages(t)) ELSE packages_file
  /\ installed_file' = IF installed_file = None THEN Some(<<>>) ELSE installed_file
  /\ written' = {f \in {"config", "packages", "installed"} :
                   \/ f = "config" /\ config_file = None
                   \/ f = "packages" /\ packages_file = None
                   \/ f = "installed" /\ installed_file = None}
  /\ pc' = "ready"
  /\ sent' = <<>>
  /\ package_info' = None
  /\ last' = [cmd |-> "init"]
  /\ ret' = None
  /\ UNCHANGED procs

----------------------------------------------------------------------------
\* asp search <query>

search_remote(query, outcome, t) ==
  /\ pc = "ready"
  /\ sent' = Append(sent, Request("/api/packages/search",
               [type_request |-> "search", query |-> query,
                filters |-> [type |-> <<"library", "tool">>,
                             status |-> <<"stable", "beta">>]]))
  /\ LET response == make_request(outcome) IN
       IF Succeeded(response)
       THEN LET packages == Get(response[1], "packages", <<>>) IN
              /\ packages_file' = update_local_cache(packages, packages_file, t)
              /\ written' = IF Parseable(packages_file) THEN {"packages"} ELSE {}
              /\ ret' = Some(packages)
       ELSE /\ packages_file' = packages_file
            /\ written' = {}
            /\ ret' = Some(search_local(query, packages_file))
  /\ pc' = "off"
  /\ last' = [cmd |-> "search", query |-> query, outcome |-> outcome]
  /\ UNCHANGED <<config_file, installed_file, base_url, package_info>>
  /\ UNCHANGED procs

----------------------------------------------------------------------------
\* asp info <name>

\* what get_package_info_remote returns for the response of make_request
get_package_info_remote(response) ==
  IF Succeeded(response) /\ "package" \in DOMAIN response[1]
  THEN Some(response[1].package) ELSE None

info(package_name, outcome) ==
  /\ pc = "ready"
  /\ sent' = Append(sent, Request("/api/packages/info",
               [type_request |-> "package_info", package_name |-> package_name,
                version |-> None]))
  /\ ret' = Some(get_package_info_remote(make_request(outcome)))
  /\ written' = {}
  /\ pc' = "off"
  /\ last' = [cmd |-> "info", package_name |-> package_name, outcome |-> outcome]
  /\ UNCHANGED <<config_file, packages_file, installed_file, base_url, package_info>>
  /\ UNCHANGED procs

----------------------------------------------------------------------------
\* asp install <name> [--version v], in the steps of install_package_remote:
\* the info request is posted, its response arrives (and the download request
\* is posted), the download response arrives, the ledger is written.

install_package_remote(package_name, version) ==
  /\ pc = "ready"
  /\ sent' = Append(sent, Request("/api/packages/info",
               [type_request |-> "package_info", package_name |-> package_name,
                version |-> version]))
  /\ pc' = "info"
  /\ last' = [cmd |-> "install", package_name |-> package_name, version |-> version]
  /\ written' = {}
  /\ ret' = None
  /\ UNCHANGED <<config_file, packages_file, installed_file, base_url, package_info>>
  /\ UNCHANGED procs

\* version or package_info["version"]
ResolvedVersion(version, pkg) == IF version # None THEN version[1] ELSE pkg.version

install_info_response(outcome) ==
  /\ pc = "info"
  /\ LET found == get_package_info_remote(make_request(outcome)) IN
       IF ~Truthy(found)
       THEN /\ pc' = "off"
            /\ ret' = Some(FALSE)
            /\ UNCHANGED <<package_info, sent>>
       ELSE /\ pc' = "download"
            /\ package_info' = found
            /\ sent' = Append(sent, Request("/api/packages/download",
                         [type_request |-> "download",
                          package_name |-> last.package_name,
                          version |-> ResolvedVersion(last.version, found[1])]))
            /\ ret' = None
  /\ last' = DictPut(last, "info", outcome)
  /\ UNCHANGED <<config_file, packages_file, installed_file, base_url, written>>
  /\ UNCHANGED procs

install_download_response(outcome) ==
  /\ pc = "download"
  /\ IF Succeeded(make_request(outcome))
     THEN /\ pc' = "install"
          /\ ret' = None
          /\ UNCHANGED package_info
     ELSE /\ pc' = "off"
          /\ ret' = Some(FALSE)
          /\ package_info' = None
  /\ last' = DictPut(last, "download", outcome)
  /\ UNCHANGED <<config_file, packages_file, installed_file, base_url, sent, written>>
  /\ UNCHANGED procs

\* as download_and_install, with the ledger write lost
download_and_install_skips_write(t) ==
  /\ pc = "install"
  /\ installed_file' = installed_file
  /\ written' = written
  /\ ret' = Some(TRUE)
  /\ pc' = "off"
  /\ package_info' = None
  /\ UNCHANGED <<config_file, packages_file, base_url, sent, last>>
  /\ UNCHANGED procs

\* as download_and_install, the installed record also merged into the cache
download_and_install_caches(t) ==
  /\ pc = "install"
  /\ installed_file' = save_installed_package(package_info[1], installed_file, t)
  /\ written' = {"installed"}
  /\ ret' = Some(TRUE)
  /\ pc' = "off"
  /\ package_info' = None
  /\ packages_file' = update_local_cache(<<package_info[1]>>, packages_file, t)
  /\ UNCHANGED <<config_file, base_url, sent, last>>
  /\ UNCHANGED procs

download_and_install(t) ==
  /\ pc = "install"
  /\ installed_file' = save_installed_package(package_info[1], installed_file, t)
  /\ written' = {"installed"}
  /\ ret' = Some(TRUE)
  /\ pc' = "off"
  /\ package_info' = None
  /\ UNCHANGED <<config_file, packages_file, base_url, sent, last>>
  /\ UNCHANGED procs

\* the process is killed while install_package_remote waits for a response
\* or download_and_install sleeps before the ledger write: it returns nothing
interrupt ==
  /\ pc \in {"info", "download", "install"}
  /\ pc' = "off"
  /\ ret' = None
  /\ package_info' = None
  /\ UNCHANGED <<config_file, packages_file, installed_file, base_url, sent,
                 last, written>>
  /\ UNCHANGED procs

----------------------------------------------------------------------------
\* asp uninstall <name>: the branch of main(); ret holds which branch ran
\* (FALSE: "not installed" was printed, TRUE: the entry was removed)

uninstall(package_name) ==
  /\ pc = "ready"
  /\ LET installed == get_installed_packages(installed_file) IN
       IF IsInstalled(installed, package_name)
       THEN /\ installed_file' = Some(WithoutName(installed, package_name))
            /\ written' = {"installed"}
            /\ ret' = Some(TRUE)
       ELSE /\ installed_file' = installed_file
            /\ written' = {}
            /\ ret' = Some(FALSE)
  /\ pc' = "off"
  /\ last' = [cmd |-> "uninstall", package_name |-> package_name]
  /\ UNCHANGED <<config_file, packages_file, base_url, sent, package_info>>
  /\ UNCHANGED procs

\* asp list
list_installed ==
  /\ pc = "ready"
  /\ ret' = Some(get_installed_packages(installed_file))
  /\ written' = {}
  /\ pc' = "off"
  /\ last' = [cmd |-> "list"]
  /\ UNCHANGED <<config_file, packages_file, installed_file, base_url, sent, package_info>>
  /\ UNCHANGED procs

\* asp server-status
server_status(outcome) ==
  /\ pc = "ready"
  /\ sent' = Append(sent, Request("/api/status", [type_request |-> "ping"]))
  /\ ret' = Some(Succeeded(make_request(outcome)))
  /\ written' = {}
  /\ pc' = "off"
  /\ last' = [cmd |-> "server-status", outcome |-> outcome]
  /\ UNCHANGED <<config_file, packages_file, installed_file, base_url, package_info>>
  /\ UNCHANGED procs

\* as update_server_url, setting server_url in the config that is there
update_server_url_merges(new_url) ==
  /\ pc = "ready"
  /\ base_url' = new_url
  /\ config_file' = Some(DictPut(config_file[1], "server_url", new_url))
  /\ written' = {"config"}
  /\ ret' = None
  /\ pc' = "off"
  /\ last' = [cmd |-> "set-server", url |-> new_url]
  /\ UNCHANGED <<packages_file, installed_file, sent, package_info>>
  /\ UNCHANGED procs

\* asp set-server <url>
update_server_url(new_url) ==
  /\ pc = "ready"
  /\ base_url' = new_url
  /\ config_file' = Some(default_config(new_url))
  /\ written' = {"config"}
  /\ ret' = None
  /\ pc' = "off"
  /\ last' = [cmd |-> "set-server", url |-> new_url]
  /\ UNCHANGED <<packages_file, installed_file, sent, package_info>>
  /\ UNCHANGED procs

----------------------------------------------------------------------------

Start == \E t \in Times : init_config(t)

Search == \E q \in Queries, o \in SearchOutcomes, t \in Times : search_remote(q, o, t)

Info == \E n \in PackageNames, o \in InfoOutcomes : info(n, o)

InstallBegin == \E n \in PackageNames, v \in VersionArgs : install_package_remote(n, v)

InstallInfo == \E o \in InfoOutcomes : install_info_response(o)

InstallDownload == \E o \in DownloadOutcomes : install_download_response(o)

InstallSave == \E t \in Times : download_and_install(t)

Uninstall == \E n \in PackageNames : uninstall(n)

ServerStatus == \E o \in StatusOutcomes : server_status(o)

SetServer == \E u \in Urls : update_server_url(u)

Next ==
  \/ Start
  \/ Search
  \/ Info
  \/ InstallBegin
  \/ InstallInfo
  \/ InstallDownload
  \/ InstallSave
  \/ interrupt
  \/ Uninstall
  \/ list_installed
  \/ ServerStatus
  \/ SetServer

Spec == Init /\ [][Next]_vars

\* the cache alone: processes that search
NextCache == Start \/ Search

SpecCache == Init /\ [][NextCache]_vars

\* the ledger alone: processes that install, uninstall or list
NextLedger ==
  \/ Start
  \/ InstallBegin
  \/ InstallInfo
  \/ InstallDownload
  \/ InstallSave
  \/ interrupt
  \/ Uninstall
  \/ list_installed

SpecLedger == Init /\ [][NextLedger]_vars

----------------------------------------------------------------------------
\* Vocabulary of the properties.

\* the number of records of list named name
Count(list, name) == Cardinality({i \in 1..Len(list) : list[i].name = name})

HasName(list, name) == Count(list, name) > 0

\* the records of list with another name, in order
Others(list, name) == SelectSeq(list, LAMBDA p : p.name # name)

\* the last record of list named name
LastNamed(list, name) ==
  list[CHOOSE j \in 1..Len(list) :
         list[j].name = name /\ \A k \in (j + 1)..Len(list) : list[k].name # name]

\* the one record of list named name
TheNamed(list, name) == list[CHOOSE j \in 1..Len(list) : list[j].name = name]

NamesUnique(list) ==
  \A i, j \in 1..Len(list) : list[i].name = list[j].name => i = j

\* the packages of the cache file
Cached(file) == Get(file[1], "packages", <<>>)

\* a process has just run "search" and got a response with success true
SearchSucceeded ==
  /\ pc = "off"
  /\ last.cmd = "search"
  /\ last.outcome.kind = "ok"
  /\ Get(last.outcome.body, "success", FALSE)

\* the list that response carried
Returned == Get(last.outcome.body, "packages", <<>>)

----------------------------------------------------------------------------
\* C1 (fallback): when the search request fails (connection error, timeout,
\* transport error, non-JSON body, or a response without success true), the
\* search returns exactly search_local(query) on the cache as it is, and the
\* cache file is neither written nor changed.
C1_Fallback ==
  [][(pc = "ready" /\ pc' = "off" /\ last'.cmd = "search"
        /\ last'.outcome \in Failures)
      => /\ ret' = Some(search_local(last'.query, packages_file))
         /\ packages_file' = packages_file
         /\ "packages" \notin written']_vars

\* a search whose response was not JSON fell back and found cached records
C1_Witness ==
  /\ pc = "off"
  /\ last.cmd = "search"
  /\ last.outcome = Failure("JSONDecodeError")
  /\ ret # Some(<<>>)
  /\ Parseable(packages_file)

----------------------------------------------------------------------------
\* a process has just merged the one-record list [r] of a search response
\* into a readable cache
MergedOne ==
  /\ pc = "off"
  /\ last.cmd = "search"
  /\ last.outcome.kind = "ok"
  /\ Get(last.outcome.body, "success", FALSE)
  /\ Len(Get(last.outcome.body, "packages", <<>>)) = 1
  /\ "packages" \in written

\* C2 (merge idempotence, as claimed): once [r] was merged, merging [r]
\* again leaves the cache file identical to the file after the first merge.
C2_IdenticalFile ==
  MergedOne =>
    \A t2 \in Times :
      update_local_cache(last.outcome.body.packages, packages_file, t2)
        = packages_file

\* C2 (merge idempotence, amended): merging [r] twice leaves the cache file
\* as a single merge of [r] made at the time of the second one does: the
\* packages list and client_version of the two agree, last_updated is the
\* time of the latest merge.
C2_Idempotent ==
  \A r \in ServerPkgs, t1, t2 \in Times :
    LET once == update_local_cache(<<r>>, packages_file, t1)
        twice == update_local_cache(<<r>>, once, t2)
    IN  /\ twice = update_local_cache(<<r>>, packages_file, t2)
        /\ Parseable(packages_file) => Cached(twice) = Cached(once)

\* a search has merged a one-record list into a cache of other records
C2_Witness ==
  /\ MergedOne
  /\ Len(Cached(packages_file)) >= 3

----------------------------------------------------------------------------
\* C3 (merge overwrite): when the cache holds a record named x and a search
\* response lists records named x, the cache afterwards holds exactly one
\* record named x, and it is the last record named x of the response.
C3_Overwrite ==
  [][(pc = "ready" /\ SearchSucceeded' /\ Parseable(packages_file))
      => \A i \in 1..Len(Returned') :
           LET x == Returned'[i].name IN
             HasName(Cached(packages_file), x)
               => /\ Count(Cached(packages_file'), x) = 1
                  /\ TheNamed(Cached(packages_file'), x) = LastNamed(Returned', x)]_vars

\* the seeded cache (launcher_updater, artutils 1.2.0) took artutils 1.3.0 in
\* the place of the seeded record, and the last of two records named x
C3_Witness ==
  /\ SearchSucceeded
  /\ Parseable(packages_file)
  /\ Len(Cached(packages_file)) >= 3
  /\ Cached(packages_file)[1] = LauncherUpdater
  /\ Cached(packages_file)[2] = ArtUtils2
  /\ Returned = <<PkgX2, PkgX1>>
  /\ Cached(packages_file)[3] = PkgX1

----------------------------------------------------------------------------
\* C4 (cache uniqueness): after any sequence of searches the cache holds at
\* most one record per package name.
C4_CacheUnique ==
  Parseable(packages_file) => NamesUnique(Cached(packages_file))

\* a response with two records of one name was merged into the seeded cache
C4_Witness ==
  /\ SearchSucceeded
  /\ "packages" \in written
  /\ Len(Returned) >= 2
  /\ Returned[1].name = Returned[2].name
  /\ HasName(Cached(packages_file), "launcher_updater")

----------------------------------------------------------------------------
\* C7 (successful search, as claimed): when the response has success true,
\* the search returns the response's packages list, afterwards every returned
\* record is in the cache, and cached records of other names are kept.
C7_EveryReturnedCached ==
  [][(pc = "ready" /\ SearchSucceeded')
      => /\ ret' = Some(Returned')
         /\ \A i \in 1..Len(Returned') :
              \E j \in 1..Len(Cached(packages_file')) :
                Cached(packages_file')[j] = Returned'[i]
         /\ \A k \in 1..Len(Cached(packages_file)) :
              ~HasName(Returned', Cached(packages_file)[k].name)
                => \E j \in 1..Len(Cached(packages_file')) :
                     Cached(packages_file')[j] = Cached(packages_file)[k]]_vars

\* C7 (successful search, amended): when the response has success true, the
\* search returns the response's packages list (empty when the field is
\* absent).  If the cache file can be read, the cache afterwards holds, for
\* every name of the list, exactly one record, equal to the last record of
\* that name in the list, and cached records of other names are kept; if the
\* cache file cannot be read, it is left as it is.
C7_MergesAndReturns ==
  [][(pc = "ready" /\ SearchSucceeded')
      => /\ ret' = Some(Returned')
         /\ IF Parseable(packages_file)
            THEN /\ \A i \in 1..Len(Returned') :
                      LET x == Returned'[i].name IN
                        /\ Count(Cached(packages_file'), x) = 1
                        /\ TheNamed(Cached(packages_file'), x)
                             = LastNamed(Returned', x)
                 /\ \A k \in 1..Len(Cached(packages_file)) :
                      ~HasName(Returned', Cached(packages_file)[k].name)
                        => \E j \in 1..Len(Cached(packages_file')) :
                             Cached(packages_file')[j] = Cached(packages_file)[k]
            ELSE packages_file' = packages_file]_vars

\* a successful search returned two records, one overwriting the seeded
\* artutils, while the seeded launcher_updater stayed
C7_Witness ==
  /\ SearchSucceeded
  /\ ret = Some(<<ArtUtils2, PkgX1>>)
  /\ Cached(packages_file) = <<LauncherUpdater, ArtUtils2, PkgX1>>

----------------------------------------------------------------------------
\* the ledger
Ledger == get_installed_packages(installed_file)

\* a process has just run "install" to the end and recorded the package
Installed == pc = "off" /\ last.cmd = "install" /\ ret = Some(TRUE)

\* the record the package info response carried
InfoRecord == last.info.body.package

\* C5 (ledger uniqueness): after any sequence of installs and uninstalls
\* the ledger holds at most one entry per package name.
C5_LedgerUnique == NamesUnique(Ledger)

\* x was installed into a ledger that holds two other packages
C5_Witness ==
  /\ Installed
  /\ InfoRecord.name = "x"
  /\ Len(Ledger) = 3

----------------------------------------------------------------------------
\* C6 (install failure): no step of an install other than the ledger write
\* of a successful one changes the ledger, and when the package info request
\* or the download request fails or reports failure the install ends there,
\* returns false and has written nothing to the ledger.
C6_FailureKeepsLedger ==
  [][(last'.cmd = "install")
      => /\ ret' # Some(TRUE) => installed_file' = installed_file
         /\ (\/ pc = "info" /\ "info" \in DOMAIN last'
                  /\ last'.info \in Failures
             \/ pc = "download" /\ "download" \in DOMAIN last'
                  /\ last'.download \in Failures)
              => /\ pc' = "off"
                 /\ ret' = Some(FALSE)
                 /\ "installed" \notin written']_vars

\* an install whose download request timed out returned false, the ledger
\* holding an earlier installation
C6_Witness ==
  /\ pc = "off"
  /\ last.cmd = "install"
  /\ "download" \in DOMAIN last
  /\ last.download = Failure("Timeout")
  /\ ret = Some(FALSE)
  /\ Len(Ledger) >= 1

----------------------------------------------------------------------------
\* C8 (install then list): after an install has recorded a package named n,
\* the ledger list holds exactly one entry named n, and that entry carries
\* installed_by = "asmp", installed_at > 0 and the client version.
C8_InstallThenList ==
  Installed =>
    LET n == InfoRecord.name IN
      /\ Count(Ledger, n) = 1
      /\ LET e == TheNamed(Ledger, n) IN
           /\ {"installed_by", "installed_at", "client_version"} \subseteq DOMAIN e
           /\ e.installed_by = InstalledBy
           /\ e.installed_at > 0
           /\ e.client_version = __version__

\* artutils was installed next to another package
C8_Witness ==
  /\ Installed
  /\ InfoRecord.name = "artutils"
  /\ Len(Ledger) = 2

----------------------------------------------------------------------------
\* C9 (re-install replaces): when an install records a package named n whose
\* name is already in the ledger, the ledger afterwards holds exactly one
\* entry named n, it is the last entry and has the version of the record
\* just installed, and the entries of other names are as before, in the same
\* order.
C9_ReinstallReplaces ==
  [][(pc = "install" /\ Installed')
      => LET n == InfoRecord'.name
             before == get_installed_packages(installed_file)
             after == get_installed_packages(installed_file')
         IN  HasName(before, n)
               => /\ Count(after, n) = 1
                  /\ after[Len(after)].name = n
                  /\ after[Len(after)].version = InfoRecord'.version
                  /\ Others(after, n) = Others(before, n)]_vars

\* x 2.0.0 was installed and stands last, after two other packages
C9_Witness ==
  /\ Installed
  /\ InfoRecord = PkgX2
  /\ Len(Ledger) = 3
  /\ Ledger[1].name = "launcher_updater"
  /\ Ledger[2].name = "artutils"
  /\ Ledger[3].version = "2.0.0"

----------------------------------------------------------------------------
\* C10 (uninstall of an unknown name): uninstalling a name that has no entry
\* in the ledger reports "not installed" (false), leaves the ledger file as
\* it is and does not write it.
C10_UninstallUnknown ==
  [][(pc = "ready" /\ pc' = "off" /\ last'.cmd = "uninstall"
        /\ ~HasName(Ledger, last'.package_name))
      => /\ ret' = Some(FALSE)
         /\ installed_file' = installed_file
         /\ "installed" \notin written']_vars

\* artutils was not installed, another package was
C10_Witness ==
  /\ pc = "off"
  /\ last.cmd = "uninstall"
  /\ last.package_name = "artutils"
  /\ ret = Some(FALSE)
  /\ Len(Ledger) >= 1
  /\ "installed" \notin written

----------------------------------------------------------------------------
\* C11 (uninstall of an installed name): uninstalling a name that has an
\* entry in the ledger reports the removal (true) and writes a ledger that
\* has no entry of that name and holds every other entry unchanged, in the
\* same order.
C11_UninstallKnown ==
  [][(pc = "ready" /\ pc' = "off" /\ last'.cmd = "uninstall"
        /\ HasName(Ledger, last'.package_name))
      => LET n == last'.package_name
             after == get_installed_packages(installed_file')
         IN  /\ ret' = Some(TRUE)
             /\ "installed" \in written'
             /\ ~HasName(after, n)
             /\ after = Others(Ledger, n)]_vars

\* a package was removed from a ledger that keeps two others
C11_Witness ==
  /\ pc = "off"
  /\ last.cmd = "uninstall"
  /\ ret = Some(TRUE)
  /\ Len(Ledger) = 2
  /\ "installed" \in written

----------------------------------------------------------------------------
\* the configuration alone: processes that set the server or ask its status
NextConfig == Start \/ SetServer \/ ServerStatus

SpecConfig == Init /\ [][NextConfig]_vars

\* a process starts
Starting == pc = "off" /\ pc' = "ready"

----------------------------------------------------------------------------
\* C12 (first-run bootstrap): when none of the three files exists, starting
\* the client leaves a cache of exactly the two seeded records
\* (launcher_updater, artutils), an empty ledger and a config with the
\* default server URL, auto_update true and timeout 30.
C12_Bootstrap ==
  [][(Starting /\ config_file = None /\ packages_file = None
        /\ installed_file = None)
      => /\ Parseable(packages_file')
         /\ Len(Cached(packages_file')) = 2
         /\ Cached(packages_file')[1].name = "launcher_updater"
         /\ Cached(packages_file')[2].name = "artutils"
         /\ installed_file' = Some(<<>>)
         /\ config_file' # None
         /\ config_file'[1].server_url = "https://api.artstudia.com"
         /\ config_file'[1].auto_update = TRUE
         /\ config_file'[1].timeout = 30
         /\ base_url' = "https://api.artstudia.com"]_vars

\* the first process has started and created all three files
C12_Witness ==
  /\ pc = "ready"
  /\ written = {"config", "packages", "installed"}
  /\ Len(Cached(packages_file)) = 2
  /\ installed_file = Some(<<>>)

----------------------------------------------------------------------------
\* C14 (set-server is a full overwrite): after set-server u the persisted
\* config is exactly server_url = u, auto_update = true, timeout = 30 and the
\* current client version, whatever it held before, and the client started
\* next uses u as its server URL.
C14_SetServerOverwrites ==
  [][/\ (pc = "ready" /\ pc' = "off" /\ last'.cmd = "set-server")
          => config_file' = Some([server_url |-> last'.url, auto_update |-> TRUE,
                                  timeout |-> 30, client_version |-> "0.1.0"])
     /\ (Starting /\ last.cmd = "set-server")
          => base_url' = last.url /\ config_file' = config_file]_vars

\* a client started after set-server works with the new URL
C14_Witness ==
  /\ pc = "ready"
  /\ last.cmd = "init"
  /\ base_url = MirrorUrl
  /\ config_file[1].auto_update = TRUE
  /\ config_file[1].timeout = 30

----------------------------------------------------------------------------
\* C15 (existing state is loaded as it is): when the config, cache and ledger
\* files exist, starting the client writes none of them and leaves all three
\* unchanged, and the server URL of the client is the persisted server_url,
\* or the default URL when the config has no server_url.
C15_LoadsAsIs ==
  [][(Starting /\ config_file # None /\ packages_file # None
        /\ installed_file # None)
      => /\ config_file' = config_file
         /\ packages_file' = packages_file
         /\ installed_file' = installed_file
         /\ written' = {}
         /\ base_url' = IF "server_url" \in DOMAIN config_file[1]
                        THEN config_file[1].server_url
                        ELSE "https://api.artstudia.com"]_vars

\* a client started on existing files, the config without server_url
C15_Witness ==
  /\ pc = "ready"
  /\ written = {}
  /\ config_file = Some(OldConfig)
  /\ base_url = DefaultBaseUrl

----------------------------------------------------------------------------
\* Every command together, each with a few of its inputs: one query, two
\* package names, and of each request one transport failure, one refusal and
\* the successful answers below.

FewSearchOutcomes ==
  {Failure("ConnectionError"),
   Answer([success |-> FALSE, error |-> "unavailable"]),
   Answer([success |-> TRUE, packages |-> <<PkgX1>>]),
   Answer([success |-> TRUE, packages |-> <<ArtUtils2, PkgX2>>])}

FewInfoOutcomes ==
  {Failure("Timeout"),
   Answer([success |-> FALSE, error |-> "unavailable"]),
   Answer([success |-> TRUE, package |-> PkgX1]),
   Answer([success |-> TRUE, package |-> ArtUtils2])}

FewDownloadOutcomes ==
  {Failure("Timeout"),
   Answer([success |-> TRUE, download_url |-> "http://dl.local/pkg",
           install_script |-> "setup.sh"])}

FewStatusOutcomes ==
  {Failure("ConnectionError"),
   Answer([success |-> TRUE, server |-> [name |-> "registry"]])}

FewNames == {"x", "artutils"}

SearchFew == \E o \in FewSearchOutcomes, t \in Times : search_remote("UTIL", o, t)

InfoFew == \E n \in FewNames, o \in FewInfoOutcomes : info(n, o)

InstallBeginFew == \E n \in FewNames, v \in VersionArgs : install_package_remote(n, v)

InstallInfoFew == \E o \in FewInfoOutcomes : install_info_response(o)

InstallDownloadFew == \E o \in FewDownloadOutcomes : install_download_response(o)

UninstallFew == \E n \in FewNames : uninstall(n)

ServerStatusFew == \E o \in FewStatusOutcomes : server_status(o)

NextAll ==
  \/ Start
  \/ SearchFew
  \/ InfoFew
  \/ InstallBeginFew
  \/ InstallInfoFew
  \/ InstallDownloadFew
  \/ InstallSave
  \/ interrupt
  \/ UninstallFew
  \/ list_installed
  \/ ServerStatusFew
  \/ SetServer

SpecAll == Init /\ [][NextAll]_vars

----------------------------------------------------------------------------
\* Vocabulary of C13: matching spelled out character by character.

\* a letter without its case
Fold(c) ==
  IF \E i \in 1..Len(UpperCase) : c = UpperCase[i] \/ c = LowerCase[i]
  THEN UpperCase[CHOOSE i \in 1..Len(UpperCase) :
                   c = UpperCase[i] \/ c = LowerCase[i]]
  ELSE c

\* the characters a occur in b, side by side, whatever their case
Within(a, b) ==
  \E k \in 0..Len(b) :
    /\ k + Len(a) <= Len(b)
    /\ \A i \in 1..Len(a) : Fold(a[i]) = Fold(b[k + i])

\* the tags of a record written one after the other, a space between two
RECURSIVE TagLine(_)
TagLine(tags) ==
  IF tags = <<>> THEN <<>>
  ELSE LET front == TagLine(SubSeq(tags, 1, Len(tags) - 1)) IN
         (IF Len(tags) = 1 THEN <<>> ELSE front \o <<" ">>)
           \o Chars(tags[Len(tags)])

IsHit(query, pkg) ==
  \/ Within(Chars(query), Chars(pkg.name))
  \/ "description" \in DOMAIN pkg /\ Within(Chars(query), Chars(pkg.description))
  \/ "tags" \in DOMAIN pkg /\ Within(Chars(query), TagLine(pkg.tags))

\* C13 (local search): on a readable cache search_local(query) is exactly
\* the cached records whose name, description or space-joined tag list
\* contains the query, case ignored, in the order they are stored, and a
\* failed search returns that list.
C13_LocalSearch ==
  Parseable(packages_file) =>
    /\ \A q \in Queries :
         search_local(q, packages_file)
           = SelectSeq(Cached(packages_file), LAMBDA p : IsHit(q, p))
    /\ (pc = "off" /\ last.cmd = "search" /\ last.outcome \in Failures)
         => ret = Some(SelectSeq(Cached(packages_file),
                                 LAMBDA p : IsHit(last.query, p)))

\* the failed search for "help" found artutils by its tag "helpers" and x by
\* its tag "Help", and not launcher_updater
C13_Witness ==
  /\ pc = "off"
  /\ last.cmd = "search"
  /\ last.outcome \in Failures
  /\ last.query = "help"
  /\ Cached(packages_file) = <<LauncherUpdater, ArtUtils, PkgX1>>
  /\ ret = Some(<<ArtUtils, PkgX1>>)

----------------------------------------------------------------------------
\* C16 (configured timeout): every request the client has posted went out
\* with the timeout of the persisted config.
C16_ConfiguredTimeout ==
  config_file # None =>
    \A i \in 1..Len(sent) :
      sent[i].timeout = Get(config_file[1], "timeout", DefaultTimeout)

----------------------------------------------------------------------------
\* Vocabulary of C17.

\* the positions in sent of the requests to an endpoint
SentTo(endpoint) == {i \in 1..Len(sent) : sent[i].endpoint = endpoint}

\* the info response of the running install carried a package
InfoSucceeded ==
  /\ "info" \in DOMAIN last
  /\ last.info.kind = "ok"
  /\ Get(last.info.body, "success", FALSE)
  /\ "package" \in DOMAIN last.info.body

DownloadSucceeded ==
  /\ "download" \in DOMAIN last
  /\ last.download.kind = "ok"
  /\ Get(last.download.body, "success", FALSE)

\* what holds of an install, running or ended
InstallOrder ==
  last.cmd = "install" =>
    /\ SentTo("/api/packages/info") = {1}
    /\ SentTo("/api/packages/download") \subseteq {2}
    /\ Len(sent) <= 2
    /\ SentTo("/api/packages/download") # {} => InfoSucceeded
    /\ pc = "install" => DownloadSucceeded
    /\ "installed" \in written => DownloadSucceeded
    /\ ret = Some(TRUE) => "installed" \in written

----------------------------------------------------------------------------
\* C18 (each file has its own writers): in the steps of a command (all but
\* the start of the client, which creates missing files) the cache file
\* changes or is written only by a search whose response has success true,
\* and the ledger only by the last step of a successful install or by the
\* uninstall of a name that is in it; info, install, server-status, list,
\* uninstall, set-server and failed searches leave the cache as it is, and
\* search, info, server-status and set-server leave the ledger as it is.
C18_OwnWriters ==
  [][~Starting
      => /\ (packages_file' # packages_file \/ "packages" \in written')
              => pc = "ready" /\ SearchSucceeded'
         /\ (installed_file' # installed_file
               \/ ("installed" \in written' /\ pc' = "off" /\ pc # "off"))
              => \/ pc = "install" /\ Installed'
                 \/ /\ pc = "ready"
                    /\ last'.cmd = "uninstall"
                    /\ HasName(Ledger, last'.package_name)
         /\ last'.cmd \in {"info", "install", "server-status", "list",
                           "uninstall", "set-server"}
              => packages_file' = packages_file
         /\ last'.cmd \in {"search", "info", "server-status", "set-server"}
              => installed_file' = installed_file]_vars

\* an uninstall wrote the ledger and left the cache, which a search had
\* extended before
C18_Witness ==
  /\ pc = "off"
  /\ last.cmd = "uninstall"
  /\ ret = Some(TRUE)
  /\ written = {"installed"}
  /\ Parseable(packages_file)
  /\ Len(Cached(packages_file)) = 3

----------------------------------------------------------------------------
\* the names of the records in the cache file
CachedNames(file) ==
  IF Parseable(file)
  THEN {Cached(file)[i].name : i \in 1..Len(Cached(file))}
  ELSE {}

\* C19 (the cache is never pruned): no step of any command or start of the
\* client removes a package name from the cache, and a first start puts the
\* two seeded names there.
C19_NeverPruned ==
  [][/\ CachedNames(packages_file) \subseteq CachedNames(packages_file')
     /\ (Starting /\ packages_file = None)
          => {"launcher_updater", "artutils"} \subseteq CachedNames(packages_file')]_vars

\* a search that returned only x left the seeded names and the newer
\* artutils of an earlier search in the cache
C19_Witness ==
  /\ SearchSucceeded
  /\ Returned = <<PkgX1>>
  /\ Cached(packages_file) = <<LauncherUpdater, ArtUtils2, PkgX1>>

----------------------------------------------------------------------------
\* C20 (unreadable cache): when the cache file cannot be parsed,
\* search_local returns the empty list, so a search whose request fails
\* returns the empty list; a search whose response has success true returns
\* the packages of the response, and the cache file is left as it is.
C20_CorruptContained ==
  [][(pc = "ready" /\ pc' = "off" /\ last'.cmd = "search"
        /\ ~Parseable(packages_file))
      => /\ \A q \in Queries : search_local(q, packages_file) = <<>>
         /\ packages_file' = packages_file
         /\ "packages" \notin written'
         /\ last'.outcome \in Failures => ret' = Some(<<>>)
         /\ SearchSucceeded' => ret' = Some(Returned')]_vars

\* a successful search returned its packages over an unparseable cache file
C20_Witness ==
  /\ SearchSucceeded
  /\ packages_file = Corrupt
  /\ ret = Some(<<PkgX1, ArtUtils2>>)

----------------------------------------------------------------------------
\* Two invocations side by side.  Each is a process with its own client
\* object and locals, kept in procs; the three files are shared.  A process
\* takes the steps of its command one at a time, and between its read of
\* the ledger and the write that follows the other process may run.

\* the variables of the process that runs alone, not used here
alone == <<base_url, pc, sent, package_info, last, ret, written>>

\* the files as left by earlier runs: as in Init, or with one installation
InitTwo ==
  /\ config_file \in {None, Some(OldConfig)}
  /\ packages_file \in {None, Corrupt, Some(OldCache)}
  /\ installed_file \in {None, Some(<<>>), Some(<<Stamped(ArtUtils, 1)>>)}
  /\ base_url = DefaultBaseUrl
  /\ pc = "off"
  /\ sent = <<>>
  /\ package_info = None
  /\ last = [cmd |-> "none"]
  /\ ret = None
  /\ written = {}
  /\ procs = [p \in Procs |-> Idle]

\* ASMPClient() of process p: init_config up to the test whether the ledger
\* file exists
proc_init_config(p, t) ==
  /\ procs[p].pc = "off"
  /\ procs[p].cmd = "none"
  /\ config_file' = IF config_file = None
                    THEN Some(default_config(DefaultBaseUrl)) ELSE config_file
  /\ packages_file' = IF packages_file = None
                      THEN Some(default_packages(t)) ELSE packages_file
  /\ procs' = [procs EXCEPT ![p] =
       [pc |-> IF installed_file = None THEN "create" ELSE "ready",
        cmd |-> "init",
        base_url |-> IF config_file = None THEN DefaultBaseUrl
                     ELSE Get(config_file[1], "server_url", DefaultBaseUrl),
        ret |-> None]]
  /\ UNCHANGED <<installed_file, alone>>

\* init_config of process p writes the empty ledger it found missing
proc_create_ledger(p) ==
  /\ procs[p].pc = "create"
  /\ installed_file' = Some(<<>>)
  /\ procs' = [procs EXCEPT ![p].pc = "ready"]
  /\ UNCHANGED <<config_file, packages_file, alone>>

\* asp install of process p: the package info request is posted
proc_install_package_remote(p, package_name, version) ==
  /\ procs[p].pc = "ready"
  /\ procs' = [procs EXCEPT ![p] =
       [pc |-> "info", cmd |-> "install", base_url |-> procs[p].base_url,
        package_name |-> package_name, version |-> version,
        sent |-> <<Request("/api/packages/info",
                     [type_request |-> "package_info",
                      package_name |-> package_name, version |-> version])>>,
        ret |-> None]]
  /\ UNCHANGED <<config_file, packages_file, installed_file, alone>>

\* the package info response arrives; the download request is posted
proc_install_info_response(p, outcome) ==
  /\ procs[p].pc = "info"
  /\ LET found == get_package_info_remote(make_request(outcome)) IN
       procs' = [procs EXCEPT ![p] =
         IF ~Truthy(found)
         THEN [pc |-> "off", ret |-> Some(FALSE)] @@ procs[p]
         ELSE [pc |-> "download", package_info |-> found,
               sent |-> Append(procs[p].sent, Request("/api/packages/download",
                          [type_request |-> "download",
                           package_name |-> procs[p].package_name,
                           version |-> ResolvedVersion(procs[p].version,
                                                       found[1])]))]
              @@ procs[p]]
  /\ UNCHANGED <<config_file, packages_file, installed_file, alone>>

\* the download response arrives
proc_install_download_response(p, outcome) ==
  /\ procs[p].pc = "download"
  /\ procs' = [procs EXCEPT ![p] =
       IF Succeeded(make_request(outcome))
       THEN [pc |-> "install"] @@ procs[p]
       ELSE [pc |-> "off", ret |-> Some(FALSE)] @@ procs[p]]
  /\ UNCHANGED <<config_file, packages_file, installed_file, alone>>

\* save_installed_package of process p reads the ledger
proc_save_read(p) ==
  /\ procs[p].pc = "install"
  /\ procs' = [procs EXCEPT ![p] =
       [pc |-> "save", installed |-> get_installed_packages(installed_file)]
       @@ procs[p]]
  /\ UNCHANGED <<config_file, packages_file, installed_file, alone>>

\* as proc_save_write, the ledger read again under a lock held for the write
proc_save_write_locked(p, t) ==
  /\ procs[p].pc = "save"
  /\ LET record == procs[p].package_info[1] IN
       /\ installed_file' = save_installed_package(record, installed_file, t)
       /\ procs' = [procs EXCEPT ![p] =
            [pc |-> "off", package_info |-> Some(Stamped(record, t)),
             ret |-> Some(TRUE)] @@ procs[p]]
  /\ UNCHANGED <<config_file, packages_file, alone>>

\* save_installed_package of process p filters the list it read, stamps
\* package_info in place, appends it and writes the file; the install
\* returns true
proc_save_write(p, t) ==
  /\ procs[p].pc = "save"
  /\ LET record == procs[p].package_info[1] IN
       /\ installed_file' =
            save_installed_package(record, Some(procs[p].installed), t)
       /\ procs' = [procs EXCEPT ![p] =
            [pc |-> "off", package_info |-> Some(Stamped(record, t)),
             ret |-> Some(TRUE)] @@ procs[p]]
  /\ UNCHANGED <<config_file, packages_file, alone>>

\* asp uninstall of process p reads the ledger and looks for the name
proc_uninstall_read(p, package_name) ==
  /\ procs[p].pc = "ready"
  /\ LET installed == get_installed_packages(installed_file) IN
       procs' = [procs EXCEPT ![p] =
         [pc |-> IF IsInstalled(installed, package_name)
                 THEN "remove" ELSE "off",
          cmd |-> "uninstall", base_url |-> procs[p].base_url,
          package_name |-> package_name, installed |-> installed,
          ret |-> IF IsInstalled(installed, package_name)
                  THEN None ELSE Some(FALSE)]]
  /\ UNCHANGED <<config_file, packages_file, installed_file, alone>>

\* asp uninstall of process p writes the list it read without the name
proc_uninstall_write(p) ==
  /\ procs[p].pc = "remove"
  /\ installed_file' =
       Some(WithoutName(procs[p].installed, procs[p].package_name))
  /\ procs' = [procs EXCEPT ![p] = [pc |-> "off", ret |-> Some(TRUE)] @@ procs[p]]
  /\ UNCHANGED <<config_file, packages_file, alone>>

ProcStart == \E p \in Procs, t \in Times : proc_init_config(p, t)

ProcCreate == \E p \in Procs : proc_create_ledger(p)

ProcInstallBegin ==
  \E p \in Procs, n \in FewNames, v \in VersionArgs :
    proc_install_package_remote(p, n, v)

ProcInstallInfo ==
  \E p \in Procs, o \in FewInfoOutcomes : proc_install_info_response(p, o)

ProcInstallDownload ==
  \E p \in Procs, o \in FewDownloadOutcomes :
    proc_install_download_response(p, o)

ProcSaveRead == \E p \in Procs : proc_save_read(p)

ProcSaveWrite == \E p \in Procs, t \in Times : proc_save_write(p, t)

ProcUninstallRead ==
  \E p \in Procs, n \in FewNames : proc_uninstall_read(p, n)

ProcUninstallWrite == \E p \in Procs : proc_uninstall_write(p)

NextTwo ==
  \/ ProcStart
  \/ ProcCreate
  \/ ProcInstallBegin
  \/ ProcInstallInfo
  \/ ProcInstallDownload
  \/ ProcSaveRead
  \/ ProcSaveWrite
  \/ ProcUninstallRead
  \/ ProcUninstallWrite

SpecTwo == InitTwo /\ [][NextTwo]_vars

\* the entries of a ledger list
Entries(list) == {list[i] : i \in 1..Len(list)}

\* process p ran an install to the end, which returned true
InstalledOk(p) ==
  /\ procs[p].pc = "off"
  /\ procs[p].cmd = "install"
  /\ procs[p].ret = Some(TRUE)

\* the entry that the install of process p wrote
Wrote(p) == procs[p].package_info[1]

\* process p takes its step from position at
Steps(p, at) == procs[p].pc = at /\ procs'[p] # procs[p]

\* of the entries under another name than name, a write kept those of the
\* list the writer had read, and no others
KeptOwnCopy(p, name) ==
  \A e \in Entries(Ledger) \cup Entries(procs[p].installed) :
    e.name # name => (e \in Entries(Ledger') <=> e \in Entries(procs[p].installed))

\* C21 (lost update under concurrent invocations): with two client
\* processes the ledger is written only by the write step of an install, of
\* an uninstall or of the creation of a missing ledger, and each write puts
\* down what the writer computed from the list it had read, whatever the
\* other process wrote in between: an install that returns true leaves its
\* stamped entry last and once, an uninstall that removed its name leaves no
\* entry of that name, both keep of the other names exactly the entries of
\* their own copy, and the creation leaves the empty list.  When both
\* processes ran installs that returned true, the entry of at least one of
\* them is in the ledger.  The witness is the interleaving of the claim: two
\* installs of distinct names that both returned true, and a ledger without
\* the entry of one of them.
C21_LostUpdate ==
  [][/\ \A p \in Procs :
          /\ Steps(p, "save")
               => /\ InstalledOk(p)'
                  /\ Ledger'[Len(Ledger')] = Wrote(p)'
                  /\ Count(Ledger', Wrote(p)'.name) = 1
                  /\ KeptOwnCopy(p, Wrote(p)'.name)
          /\ Steps(p, "remove")
               => /\ procs'[p].ret = Some(TRUE)
                  /\ ~HasName(Ledger', procs[p].package_name)
                  /\ KeptOwnCopy(p, procs[p].package_name)
          /\ Steps(p, "create") => installed_file' = Some(<<>>)
     /\ installed_file' # installed_file
          => \E p \in Procs : \E at \in {"save", "remove", "create"} : Steps(p, at)
     /\ (\A p \in Procs : InstalledOk(p)')
          => \E p \in Procs : Wrote(p)' \in Entries(Ledger')]_vars

\* both installs returned true, A's of x and B's of artutils; the ledger
\* holds B's entry and no entry named x
C21_Witness ==
  /\ InstalledOk("A")
  /\ InstalledOk("B")
  /\ Wrote("A").name = "x"
  /\ Wrote("B").name = "artutils"
  /\ Wrote("B") \in Entries(Ledger)
  /\ ~HasName(Ledger, "x")

----------------------------------------------------------------------------
\* the download request of the install that just ended
DownloadRequest == sent[Len(sent)]

\* C22 (what a successful install records): after install(name, version)
\* has returned true, the last ledger entry is the record of the package
\* info response with installed_at, installed_by and client_version set, the
\* ledger holds exactly one entry named name, and the version of that entry
\* is the version sent in the download request (the explicit version if one
\* was given, else the version of the package info).
C22_RecordsRequested ==
  Installed =>
    /\ Len(Ledger) >= 1
    /\ \E t \in Times : Ledger[Len(Ledger)] = Stamped(InfoRecord, t)
    /\ DownloadRequest.endpoint = "/api/packages/download"
    /\ DownloadRequest.package_name = last.package_name
    /\ DownloadRequest.version = ResolvedVersion(last.version, InfoRecord)
    /\ Count(Ledger, last.package_name) = 1
    /\ TheNamed(Ledger, last.package_name).version = DownloadRequest.version

====
